---- MODULE Spec2Model ----
(***************************************************************************)
(* Hebrew birthdays calendar: the Hebrew text parser                       *)
(* (src/src/services/dateConvertionLogic.py) and the birthday occurrence   *)
(* finder (src/hebrew_calendar.py).                                        *)
(*                                                                         *)
(* A Python str is modelled as the sequence of its Unicode code points, so *)
(* that replace, strip, startswith, slicing and dictionary lookup act on   *)
(* the same characters as in the source.  A GregorianDate / HebrewDate is  *)
(* the triple <<year, month, day>>.                                        *)
(***************************************************************************)
EXTENDS Integers, Sequences, FiniteSets, TLC

(***************************************************************************)
(* Characters (Unicode code points) that occur in the source tables.       *)
(***************************************************************************)
Alef == 1488
Bet == 1489
Gimel == 1490
Dalet == 1491
He == 1492
Vav == 1493
Zayin == 1494
Het == 1495
Tet == 1496
Yod == 1497
FinalKaf == 1498
Kaf == 1499
Lamed == 1500
FinalMem == 1501
Mem == 1502
FinalNun == 1503
Nun == 1504
Samekh == 1505
Ayin == 1506
FinalPe == 1507
Pe == 1508
FinalTsadi == 1509
Tsadi == 1510
Qof == 1511
Resh == 1512
Shin == 1513
Tav == 1514
\* U+05F4 HEBREW PUNCTUATION GERSHAYIM, U+0022 QUOTATION MARK,
\* U+0027 APOSTROPHE, U+0020 SPACE
Gershayim == 1524
Quote == 34
Apostrophe == 39
Space == 32

(***************************************************************************)
(* HEBREW_MONTHS: month name -> pyluach month number.                      *)
(***************************************************************************)
Tishrei == <<Tav, Shin, Resh, Yod>>
Cheshvan == <<Het, Shin, Vav, FinalNun>>
Marcheshvan == <<Mem, Resh, Het, Shin, Vav, FinalNun>>
Kislev == <<Kaf, Samekh, Lamed, Vav>>
Tevet == <<Tet, Bet, Tav>>
Shvat == <<Shin, Bet, Tet>>
Adar == <<Alef, Dalet, Resh>>
AdarA == <<Alef, Dalet, Resh, Space, Alef>>
AdarAGeresh == <<Alef, Dalet, Resh, Space, Alef, Apostrophe>>
AdarRishon == <<Alef, Dalet, Resh, Space, Resh, Alef, Shin, Vav, FinalNun>>
AdarB == <<Alef, Dalet, Resh, Space, Bet>>
AdarBGeresh == <<Alef, Dalet, Resh, Space, Bet, Apostrophe>>
AdarSheni == <<Alef, Dalet, Resh, Space, Shin, Nun, Yod>>
Nisan == <<Nun, Yod, Samekh, FinalNun>>
Iyar == <<Alef, Yod, Yod, Resh>>
Sivan == <<Samekh, Yod, Vav, FinalNun>>
Sivvan == <<Samekh, Yod, Vav, Vav, FinalNun>>
Tammuz == <<Tav, Mem, Vav, Zayin>>
Av == <<Alef, Bet>>
Elul == <<Alef, Lamed, Vav, Lamed>>

HEBREW_MONTHS ==
    (Tishrei :> 7) @@ (Cheshvan :> 8) @@ (Marcheshvan :> 8) @@ (Kislev :> 9)
    @@ (Tevet :> 10) @@ (Shvat :> 11) @@ (Adar :> 12)
    @@ (AdarA :> 12) @@ (AdarAGeresh :> 12) @@ (AdarRishon :> 12)
    @@ (AdarB :> 13) @@ (AdarBGeresh :> 13) @@ (AdarSheni :> 13)
    @@ (Nisan :> 1) @@ (Iyar :> 2) @@ (Sivan :> 3) @@ (Sivvan :> 3)
    @@ (Tammuz :> 4) @@ (Av :> 5) @@ (Elul :> 6)

(***************************************************************************)
(* HEBREW_NUMS: letter -> gematria value.                                  *)
(***************************************************************************)
HEBREW_NUMS ==
    (Alef :> 1) @@ (Bet :> 2) @@ (Gimel :> 3) @@ (Dalet :> 4) @@ (He :> 5)
    @@ (Vav :> 6) @@ (Zayin :> 7) @@ (Het :> 8) @@ (Tet :> 9)
    @@ (Yod :> 10) @@ (Kaf :> 20) @@ (FinalKaf :> 20) @@ (Lamed :> 30)
    @@ (Mem :> 40) @@ (FinalMem :> 40)
    @@ (Nun :> 50) @@ (FinalNun :> 50) @@ (Samekh :> 60) @@ (Ayin :> 70)
    @@ (Pe :> 80) @@ (FinalPe :> 80)
    @@ (Tsadi :> 90) @@ (FinalTsadi :> 90) @@ (Qof :> 100) @@ (Resh :> 200)
    @@ (Shin :> 300) @@ (Tav :> 400)

(***************************************************************************)
(* Python str methods used by the parser.                                  *)
(***************************************************************************)
\* str.isspace() for one character: the code points Python strips.
Whitespace ==
    (9..13) \cup (28..32) \cup {133, 160, 5760} \cup (8192..8202)
    \cup {8232, 8233, 8239, 8287, 12288}

\* s.startswith(prefix)
StartsWith(s, prefix) ==
    /\ Len(s) >= Len(prefix)
    /\ SubSeq(s, 1, Len(prefix)) = prefix

\* s.replace(old, new), old non-empty: every non-overlapping occurrence,
\* scanning left to right; the replacement text is not scanned again.
RECURSIVE Replace(_, _, _)
Replace(s, old, new) ==
    IF Len(s) < Len(old) THEN s
    ELSE IF StartsWith(s, old)
         THEN new \o Replace(SubSeq(s, Len(old) + 1, Len(s)), old, new)
         ELSE <<Head(s)>> \o Replace(Tail(s), old, new)

RECURSIVE LStrip(_)
LStrip(s) ==
    IF s # <<>> /\ Head(s) \in Whitespace THEN LStrip(Tail(s)) ELSE s

RECURSIVE RStrip(_)
RStrip(s) ==
    IF s # <<>> /\ s[Len(s)] \in Whitespace
    THEN RStrip(SubSeq(s, 1, Len(s) - 1))
    ELSE s

\* s.strip()
Strip(s) == RStrip(LStrip(s))

\* ''.join(ch for ch in s if ch in HEBREW_NUMS)
RECURSIVE KeepLetters(_)
KeepLetters(s) ==
    IF s = <<>> THEN <<>>
    ELSE IF Head(s) \in DOMAIN HEBREW_NUMS
         THEN <<Head(s)>> \o KeepLetters(Tail(s))
         ELSE KeepLetters(Tail(s))

(***************************************************************************)
(* hebrew_gematria_to_num: total starts at 0; each character found in      *)
(* HEBREW_NUMS adds its value, any other character is passed over.         *)
(***************************************************************************)
\* Variant of the loop that stops at the first character outside the
\* table (break in place of passing over it).
RECURSIVE GematriaLoopBreak(_, _)
GematriaLoopBreak(text, total) ==
    IF text = <<>> THEN total
    ELSE IF Head(text) \in DOMAIN HEBREW_NUMS
         THEN GematriaLoopBreak(Tail(text), total + HEBREW_NUMS[Head(text)])
         ELSE total

\* Variant of the loop that assigns the letter's value (= in place of +=).
RECURSIVE GematriaLoopAssign(_, _)
GematriaLoopAssign(text, total) ==
    IF text = <<>> THEN total
    ELSE IF Head(text) \in DOMAIN HEBREW_NUMS
         THEN GematriaLoopAssign(Tail(text), HEBREW_NUMS[Head(text)])
         ELSE GematriaLoopAssign(Tail(text), total)

RECURSIVE GematriaLoop(_, _)
GematriaLoop(text, total) ==
    IF text = <<>> THEN total
    ELSE IF Head(text) \in DOMAIN HEBREW_NUMS
         THEN GematriaLoop(Tail(text), total + HEBREW_NUMS[Head(text)])
         ELSE GematriaLoop(Tail(text), total)

hebrew_gematria_to_num(text) == GematriaLoop(text, 0)

(***************************************************************************)
(* hebrew_year_to_num                                                      *)
(***************************************************************************)
Shnat == <<Shin, Nun, Tav>>

\* year_text.replace("shnat", "").strip()
RemovePrefixWord(year_text) == Strip(Replace(year_text, Shnat, <<>>))

\* Variant without the length test: a lone He is dropped too.
DropMillenniumHeAlways(year_text) ==
    IF StartsWith(year_text, <<He>>) THEN Tail(year_text) ELSE year_text

\* if year_text.startswith(He) and len(year_text) > 1: year_text[1:]
DropMillenniumHe(year_text) ==
    IF StartsWith(year_text, <<He>>) /\ Len(year_text) > 1
    THEN Tail(year_text)
    ELSE year_text

\* Variant without the threshold test.
AddMillenniumAlways(val) == val + 5000

\* Variant that leaves a value of 0 alone (0 < val < 1000).
AddMillenniumNonZero(val) == IF val > 0 /\ val < 1000 THEN val + 5000 ELSE val

\* if val < 1000: val += 5000
AddMillennium(val) == IF val < 1000 THEN val + 5000 ELSE val

hebrew_year_to_num(year_text) ==
    LET stripped == RemovePrefixWord(year_text)
        rest == DropMillenniumHe(stripped)
        letters == KeepLetters(rest)
        val == hebrew_gematria_to_num(letters)
    IN  AddMillennium(val)

(***************************************************************************)
(* parse_hebrew_date: returns (year, month, day) or raises ValueError      *)
(* carrying the normalized month text.                                     *)
(***************************************************************************)
BeAdar == <<Bet, Alef, Dalet, Resh>>

\* month_text.replace("be-adar", "adar").replace(" ", "")
NormalizeMonthText(month_text) ==
    Replace(Replace(month_text, BeAdar, Adar), <<Space>>, <<>>)

\* Variant that falls back to Adar (12) for a text that is no key
\* (dict.get with a default in place of the raise).
parse_hebrew_date_default_month(day_text, month_text, year_text) ==
    LET day == hebrew_gematria_to_num(day_text)
        year == hebrew_year_to_num(year_text)
        normalized == NormalizeMonthText(month_text)
    IN  [kind |-> "return",
         value |-> <<year,
                     IF normalized \in DOMAIN HEBREW_MONTHS
                     THEN HEBREW_MONTHS[normalized] ELSE 12,
                     day>>]

\* Variant that returns the fields in the order day, month, year.
parse_hebrew_date_day_first(day_text, month_text, year_text) ==
    LET day == hebrew_gematria_to_num(day_text)
        year == hebrew_year_to_num(year_text)
        normalized == NormalizeMonthText(month_text)
    IN  IF normalized \in DOMAIN HEBREW_MONTHS
        THEN [kind |-> "return",
              value |-> <<day, HEBREW_MONTHS[normalized], year>>]
        ELSE [kind |-> "raise", error |-> "ValueError",
              value |-> normalized]

parse_hebrew_date(day_text, month_text, year_text) ==
    LET day == hebrew_gematria_to_num(day_text)
        year == hebrew_year_to_num(year_text)
        normalized == NormalizeMonthText(month_text)
    IN  IF normalized \in DOMAIN HEBREW_MONTHS
        THEN [kind |-> "return",
              value |-> <<year, HEBREW_MONTHS[normalized], day>>]
        ELSE [kind |-> "raise", error |-> "ValueError",
              value |-> normalized]

(***************************************************************************)
(* The Hebrew calendar computation behind the pyluach calls of the source: *)
(* HebrewDate(year, month, day), HebrewDate.to_greg(),                     *)
(* GregorianDate(year, 1, 1) and GregorianDate.to_heb().  The library is   *)
(* not part of the repository; these definitions follow its algorithm and  *)
(* stand for the external calendar computation of the specification        *)
(* (4.1, 5).  Days are counted as Julian day numbers at noon               *)
(* (int(jd + .5) of the library).                                          *)
(***************************************************************************)
\* year % 19 in [0, 3, 6, 8, 11, 14, 17]
IsLeap(year) == (year % 19) \in {0, 3, 6, 8, 11, 14, 17}

ElapsedMonths(year) == (235 * year - 234) \div 19

\* Days from the calendar's epoch to 1 Tishrei of year (molad plus the
\* four postponement rules).
ElapsedDays(year) ==
    LET months_elapsed == ElapsedMonths(year)
        parts_elapsed == 204 + 793 * (months_elapsed % 1080)
        hours_elapsed == 5 + 12 * months_elapsed
                         + 793 * (months_elapsed \div 1080)
                         + (parts_elapsed \div 1080)
        conjunction_day == 1 + 29 * months_elapsed + (hours_elapsed \div 24)
        conjunction_parts == 1080 * (hours_elapsed % 24)
                             + (parts_elapsed % 1080)
        alt_day ==
            IF \/ conjunction_parts >= 19440
               \/ /\ conjunction_day % 7 = 2
                  /\ conjunction_parts >= 9924
                  /\ ~IsLeap(year)
               \/ /\ conjunction_day % 7 = 1
                  /\ conjunction_parts >= 16789
                  /\ IsLeap(year - 1)
            THEN conjunction_day + 1
            ELSE conjunction_day
    IN  IF (alt_day % 7) \in {0, 3, 5} THEN alt_day + 1 ELSE alt_day

DaysInYear(year) == ElapsedDays(year + 1) - ElapsedDays(year)

MonthLength(year, month) ==
    IF month \in {1, 3, 5, 7, 11} THEN 30
    ELSE IF month \in {2, 4, 6, 10, 13} THEN 29
    ELSE IF month = 12 THEN (IF IsLeap(year) THEN 30 ELSE 29)
    ELSE IF month = 8 THEN (IF DaysInYear(year) % 10 = 5 THEN 30 ELSE 29)
    ELSE (IF DaysInYear(year) % 10 = 3 THEN 29 ELSE 30)

\* The months of a Hebrew year in calendar order, Tishrei first.
MonthsOfYear(year) ==
    IF IsLeap(year)
    THEN <<7, 8, 9, 10, 11, 12, 13, 1, 2, 3, 4, 5, 6>>
    ELSE <<7, 8, 9, 10, 11, 12, 1, 2, 3, 4, 5, 6>>

\* HebrewDate(year, month, day) is constructed without ValueError.
HebrewDateValid(year, month, day) ==
    /\ year >= 1
    /\ month >= 1 /\ month <= 13
    /\ ~(~IsLeap(year) /\ month = 13)
    /\ day >= 1 /\ day <= MonthLength(year, month)

\* Julian day number of a valid Hebrew date.
RECURSIVE DaysBeforeMonth(_, _, _)
DaysBeforeMonth(year, month, months) ==
    IF months = <<>> \/ Head(months) = month THEN 0
    ELSE MonthLength(year, Head(months))
         + DaysBeforeMonth(year, month, Tail(months))

HebrewToJdn(year, month, day) ==
    ElapsedDays(year) + DaysBeforeMonth(year, month, MonthsOfYear(year))
    + (day - 1) + 347997

\* JulianDay.to_greg(): Fliegel and Van Flandern; there is no year 0, the
\* year before year 1 is year -1.
JdnToGregorian(jd) ==
    LET l1 == jd + 68569
        n == (4 * l1) \div 146097
        l2 == l1 - ((146097 * n + 3) \div 4)
        i == (4000 * (l2 + 1)) \div 1461001
        l3 == l2 - ((1461 * i) \div 4) + 31
        j == (80 * l3) \div 2447
        day == l3 - ((2447 * j) \div 80)
        l4 == j \div 11
        month == j + 2 - 12 * l4
        year == 100 * (n - 49) + i + l4
    IN  <<IF year < 1 THEN year - 1 ELSE year, month, day>>

\* int(x) of a quotient: rounding toward zero.
IntDiv(n, d) == IF n >= 0 THEN n \div d ELSE 0 - ((0 - n) \div d)

\* GregorianDate(year, month, day) is constructed without ValueError.
GregorianIsLeap(year) ==
    year % 4 = 0 /\ (year % 100 # 0 \/ year % 400 = 0)

GregorianMonthLength(year, month) ==
    IF month = 2 THEN (IF GregorianIsLeap(year) THEN 29 ELSE 28)
    ELSE IF month \in {4, 6, 9, 11} THEN 30 ELSE 31

GregorianDateValid(year, month, day) ==
    /\ month >= 1 /\ month <= 12
    /\ day >= 1 /\ day <= GregorianMonthLength(year, month)

\* GregorianDate.jd: a year before the common era is first raised by one
\* (there is no year 0); int() rounds toward zero, // rounds down.
GregorianToJdn(year, month, day) ==
    LET y0 == IF year < 0 THEN year + 1 ELSE year
        y == IF month < 3 THEN y0 - 1 ELSE y0
        m == (IF month < 3 THEN month + 12 ELSE month) + 1
        a == y \div 100
        b == 2 - a + (a \div 4)
    IN  IntDiv(1461 * y, 4) + ((306001 * m) \div 10000) + b + day + 1720995

\* JulianDay.to_heb(): the year is guessed high and lowered until its
\* 1 Tishrei is not after the day; then the months are walked.
RECURSIVE HebrewYearOfDay(_, _)
HebrewYearOfDay(days, year) ==
    IF ElapsedDays(year) > days THEN HebrewYearOfDay(days, year - 1)
    ELSE year

RECURSIVE MonthAndDay(_, _, _)
MonthAndDay(year, months, days_remaining) ==
    IF days_remaining >= MonthLength(year, Head(months))
    THEN MonthAndDay(year, Tail(months),
                     days_remaining - MonthLength(year, Head(months)))
    ELSE <<year, Head(months), days_remaining + 1>>

\* JulianDay.to_heb(): ValueError('Date is before creation') for a day
\* that is not after the epoch (day number 347997), the Hebrew date
\* otherwise.
JdnToHebrew(jdn) ==
    IF jdn <= 347997
    THEN [kind |-> "raise", error |-> "ValueError"]
    ELSE LET days == jdn - 347997
             year == HebrewYearOfDay(days, (days \div 365) + 2)
         IN  [kind |-> "return",
              value |-> MonthAndDay(year, MonthsOfYear(year),
                                    days - ElapsedDays(year))]

\* HebrewDate(y, m, d).to_greg() of a valid Hebrew date.
to_greg(hebrew_date) ==
    JdnToGregorian(HebrewToJdn(hebrew_date[1], hebrew_date[2], hebrew_date[3]))

\* GregorianDate(y, m, d).to_heb(): the constructor raises ValueError for
\* a month or a day that does not exist, to_heb() for a date before the
\* first day of the Hebrew calendar.
to_heb(gregorian_date) ==
    IF GregorianDateValid(gregorian_date[1], gregorian_date[2],
                          gregorian_date[3])
    THEN JdnToHebrew(GregorianToJdn(gregorian_date[1], gregorian_date[2],
                                    gregorian_date[3]))
    ELSE [kind |-> "raise", error |-> "ValueError"]

\* The value None.
None == [kind |-> "None"]

\* Variant that builds the tuple as (year, day, month).
convert_hebrew_to_gregorian_day_month(hebrew_date) ==
    IF HebrewDateValid(hebrew_date[1], hebrew_date[2], hebrew_date[3])
    THEN [kind |-> "return",
          value |-> <<to_greg(hebrew_date)[1], to_greg(hebrew_date)[3],
                      to_greg(hebrew_date)[2]>>]
    ELSE [kind |-> "raise", error |-> "ValueError", value |-> hebrew_date]

\* Variant that catches the ValueError and returns None.
convert_hebrew_to_gregorian_swallow(hebrew_date) ==
    IF HebrewDateValid(hebrew_date[1], hebrew_date[2], hebrew_date[3])
    THEN [kind |-> "return", value |-> to_greg(hebrew_date)]
    ELSE [kind |-> "return", value |-> None]

(***************************************************************************)
(* convert_hebrew_to_gregorian(hebrew_date): the tuple (year, month, day)  *)
(* of the Gregorian date; the ValueError of the HebrewDate constructor is  *)
(* not caught and reaches the caller.                                      *)
(***************************************************************************)
convert_hebrew_to_gregorian(hebrew_date) ==
    IF HebrewDateValid(hebrew_date[1], hebrew_date[2], hebrew_date[3])
    THEN [kind |-> "return", value |-> to_greg(hebrew_date)]
    ELSE [kind |-> "raise", error |-> "ValueError", value |-> hebrew_date]

\* Variant that falls back to the nearest day of the month when the day
\* does not exist, in place of returning None.
hebrew_to_gregorian_nearest_day(hebrew_day, hebrew_month, hebrew_year) ==
    IF HebrewDateValid(hebrew_year, hebrew_month, hebrew_day)
    THEN [kind |-> "date",
          date |-> to_greg(<<hebrew_year, hebrew_month, hebrew_day>>)]
    ELSE IF HebrewDateValid(hebrew_year, hebrew_month, 1)
    THEN [kind |-> "date",
          date |-> to_greg(<<hebrew_year, hebrew_month,
                             IF hebrew_day < 1 THEN 1
                             ELSE MonthLength(hebrew_year, hebrew_month)>>)]
    ELSE None

(***************************************************************************)
(* HebrewBirthdayCalendar.hebrew_to_gregorian: the GregorianDate, or None  *)
(* when the HebrewDate constructor raises; one log record per call.        *)
(***************************************************************************)
hebrew_to_gregorian(hebrew_day, hebrew_month, hebrew_year) ==
    IF HebrewDateValid(hebrew_year, hebrew_month, hebrew_day)
    THEN [kind |-> "date",
          date |-> to_greg(<<hebrew_year, hebrew_month, hebrew_day>>)]
    ELSE None

LogRecord(hebrew_day, hebrew_month, hebrew_year) ==
    [level |-> IF HebrewDateValid(hebrew_year, hebrew_month, hebrew_day)
               THEN "info" ELSE "error",
     hebrew_day |-> hebrew_day,
     hebrew_month |-> hebrew_month,
     hebrew_year |-> hebrew_year]

\* Variant of the candidate loop without the break: every candidate that
\* lands in gregorian_year is appended.
RECURSIVE TryCandidatesNoBreak(_, _, _, _, _, _)
TryCandidatesNoBreak(hebrew_day, hebrew_month, gregorian_year, candidates, dates, lg) ==
    IF candidates = <<>> THEN [dates |-> dates, log |-> lg]
    ELSE LET hebrew_year == Head(candidates)
             valid == HebrewDateValid(hebrew_year, hebrew_month, hebrew_day)
             lg2 == Append(lg, [level |-> IF valid THEN "info" ELSE "error",
                                hebrew_day |-> hebrew_day,
                                hebrew_month |-> hebrew_month,
                                hebrew_year |-> hebrew_year])
             date == to_greg(<<hebrew_year, hebrew_month, hebrew_day>>)
         IN  TryCandidatesNoBreak(
                 hebrew_day, hebrew_month, gregorian_year, Tail(candidates),
                 IF valid /\ date[1] = gregorian_year
                 THEN Append(dates, date) ELSE dates,
                 lg2)

(***************************************************************************)
(* One pass of the body of the for loop of                                 *)
(* get_hebrew_birthday_gregorian_dates for gregorian_year: the candidates  *)
(* hebrew_year_start, hebrew_year_start + 1 are converted in that order    *)
(* and the first conversion landing in gregorian_year is appended (break). *)
(***************************************************************************)
RECURSIVE TryCandidates(_, _, _, _, _, _)
TryCandidates(hebrew_day, hebrew_month, gregorian_year, candidates, dates, lg) ==
    IF candidates = <<>> THEN [dates |-> dates, log |-> lg]
    ELSE LET hebrew_year == Head(candidates)
             gregorian_date ==
                 hebrew_to_gregorian(hebrew_day, hebrew_month, hebrew_year)
             lg2 == Append(lg, LogRecord(hebrew_day, hebrew_month,
                                         hebrew_year))
         IN  IF gregorian_date.kind = "date"
                /\ gregorian_date.date[1] = gregorian_year
             THEN [dates |-> Append(dates, gregorian_date.date),
                   log |-> lg2]
             ELSE TryCandidates(hebrew_day, hebrew_month, gregorian_year,
                                Tail(candidates), dates, lg2)

\* The try block of the loop body: an exception of GregorianDate(...) or
\* of to_heb() leaves the block before any candidate is converted.
TryBlock(hebrew_day, hebrew_month, gregorian_year, dates, lg) ==
    LET greg_start == <<gregorian_year, 1, 1>>
        converted == to_heb(greg_start)
    IN  IF converted.kind = "raise"
        THEN [kind |-> "raise", error |-> converted.error,
              dates |-> dates, log |-> lg]
        ELSE LET hebrew_year_start == converted.value[1]
                 out == TryCandidates(
                            hebrew_day, hebrew_month, gregorian_year,
                            <<hebrew_year_start, hebrew_year_start + 1>>,
                            dates, lg)
             IN  [kind |-> "next", dates |-> out.dates, log |-> out.log]

\* logger.error(f"Error calculating birthday for year {gregorian_year}...")
YearErrorRecord(gregorian_year) ==
    [level |-> "error", gregorian_year |-> gregorian_year]

\* except Exception: the error is logged and the loop continues.
ExceptHandler(block, gregorian_year) ==
    IF block.kind = "raise"
    THEN [kind |-> "next", dates |-> block.dates,
          log |-> Append(block.log, YearErrorRecord(gregorian_year))]
    ELSE block

\* Variant that empties the list when the year adds no date
\* (birthday_dates = [] in the failure path).
LoopBodyDropOnFailure(hebrew_day, hebrew_month, gregorian_year, dates, lg) ==
    LET out == ExceptHandler(TryBlock(hebrew_day, hebrew_month,
                                      gregorian_year, dates, lg),
                             gregorian_year)
    IN  IF Len(out.dates) > Len(dates) THEN out
        ELSE [kind |-> "next", dates |-> <<>>, log |-> out.log]

\* Variant that tries the candidates in the order H + 1, H.
LoopBodyReversed(hebrew_day, hebrew_month, gregorian_year, dates, lg) ==
    LET converted == to_heb(<<gregorian_year, 1, 1>>)
    IN  IF converted.kind = "raise"
        THEN [kind |-> "next", dates |-> dates,
              log |-> Append(lg, YearErrorRecord(gregorian_year))]
        ELSE LET out == TryCandidates(
                            hebrew_day, hebrew_month, gregorian_year,
                            <<converted.value[1] + 1, converted.value[1]>>,
                            dates, lg)
             IN  [kind |-> "next", dates |-> out.dates, log |-> out.log]

\* Variant that tries only the Hebrew year of 1 January.
LoopBodyFirstCandidateOnly(hebrew_day, hebrew_month, gregorian_year, dates, lg) ==
    LET converted == to_heb(<<gregorian_year, 1, 1>>)
    IN  IF converted.kind = "raise"
        THEN [kind |-> "next", dates |-> dates,
              log |-> Append(lg, YearErrorRecord(gregorian_year))]
        ELSE LET out == TryCandidates(
                            hebrew_day, hebrew_month, gregorian_year,
                            <<converted.value[1]>>, dates, lg)
             IN  [kind |-> "next", dates |-> out.dates, log |-> out.log]

\* Variant without the except clause: the exception leaves the loop body.
LoopBodyNoHandler(hebrew_day, hebrew_month, gregorian_year, dates, lg) ==
    TryBlock(hebrew_day, hebrew_month, gregorian_year, dates, lg)

\* try: ... except Exception as e: ...; continue
LoopBody(hebrew_day, hebrew_month, gregorian_year, dates, lg) ==
    ExceptHandler(TryBlock(hebrew_day, hebrew_month, gregorian_year,
                           dates, lg),
                  gregorian_year)

\* sorted(birthday_dates, key=lambda d: (d.year, d.month, d.day))
KeyLess(d1, d2) ==
    \/ d1[1] < d2[1]
    \/ d1[1] = d2[1] /\ d1[2] < d2[2]
    \/ d1[1] = d2[1] /\ d1[2] = d2[2] /\ d1[3] < d2[3]

RECURSIVE InsertSorted(_, _)
InsertSorted(d, s) ==
    IF s = <<>> THEN <<d>>
    ELSE IF KeyLess(d, Head(s)) THEN <<d>> \o s
         ELSE <<Head(s)>> \o InsertSorted(d, Tail(s))

RECURSIVE Sorted(_)
Sorted(s) ==
    IF s = <<>> THEN <<>>
    ELSE InsertSorted(s[Len(s)], Sorted(SubSeq(s, 1, Len(s) - 1)))

\* Variant of range() that includes its end.
InRangeInclusive(offset, n) == offset >= 0 /\ offset <= n

\* Variant that loops over range(abs(num_years)).
InRangeAbs(offset, n) == offset >= 0 /\ offset < (IF n < 0 THEN 0 - n ELSE n)

\* range(num_years): the offsets the for loop visits.
InRange(offset, n) == offset >= 0 /\ offset < n

(***************************************************************************)
(* Inputs of the model.                                                    *)
(***************************************************************************)
MaxTextLen == 3
MaxNumYears == 3
FirstStartYear == 2019
StartYearSpan == 5
FirstHebrewYear == 5784
HebrewYearSpan == 2
MaxCalls == 2
YearsBeforeCommonEra == 5000

BoundedSeqs(S, n) == UNION {[1..k -> S] : k \in 0..n}

\* The examples of the source docstrings and of the specification.
KafTet == <<Kaf, Quote, Tet>>
YodGimel == <<Yod, Gershayim, Gimel>>
TetVav == <<Tet, Quote, Vav>>
Year5765 == <<Tav, Shin, Samekh, Quote, He>>
Year5785 == <<Tav, Shin, Pe, Gershayim, He>>
ShnatYear5765 == Shnat \o <<Space, He>> \o Year5765
ShnatYear5786 == Shnat \o <<Space, He, Tav, Shin, Pe, Quote, Vav>>

GematriaAlphabet == {He, Tet, Yod, Kaf, FinalKaf, Tav, Quote, Space}

GematriaTexts ==
    BoundedSeqs(GematriaAlphabet, MaxTextLen)
    \cup {<<c>> : c \in DOMAIN HEBREW_NUMS \cup {Gershayim, Apostrophe}}
    \cup {KafTet, YodGimel, TetVav, Year5765, Year5785}

YearAlphabet == {He, Tav, Shin, Nun, Quote, Space}

YearPrefixes == {<<>>, Shnat, Shnat \o <<Space>>}

YearTexts ==
    {prefix \o body : prefix \in YearPrefixes,
                      body \in BoundedSeqs(YearAlphabet, MaxTextLen)}
    \cup {Year5765, Year5785, ShnatYear5765, ShnatYear5786}

DayTexts == {<<>>, KafTet, TetVav, <<Lamed, Alef>>}

ParseYearTexts == {<<>>, Year5765, ShnatYear5786}

\* Every key of the table, each also after the preposition be- and with a
\* trailing space, and texts that are no month name.
MonthTexts ==
    DOMAIN HEBREW_MONTHS
    \cup {<<Bet>> \o k : k \in DOMAIN HEBREW_MONTHS}
    \cup {k \o <<Space>> : k \in DOMAIN HEBREW_MONTHS}
    \cup {<<>>, <<Alef, Dalet, Resh, Alef>>, <<Alef, Dalet, Resh, Bet>>,
          <<Alef, Dalet, Resh, Space, Gimel>>}

DayValues == 0..31
MonthValues == 0..14
\* Years of the present, and a year whose 1 January lies before the first
\* day of the Hebrew calendar.
StartYears ==
    (FirstStartYear..(FirstStartYear + StartYearSpan))
    \cup {0 - YearsBeforeCommonEra}
GregorianDateValues ==
    {<<y, m, d>> : y \in StartYears, m \in 0..13, d \in 0..32}
NumYearsValues == (-1)..MaxNumYears
HebrewYearValues ==
    {0} \cup (FirstHebrewYear..(FirstHebrewYear + HebrewYearSpan))

(***************************************************************************)
(* State: the entry point called and its arguments, the position in the    *)
(* call, the locals of get_hebrew_birthday_gregorian_dates, the records    *)
(* hebrew_to_gregorian has logged, the outcome of the call, and for the    *)
(* two single-date conversions the number of calls made with the same      *)
(* arguments; gregorian_date is the argument of a conversion to Hebrew.    *)
(***************************************************************************)
VARIABLES op, text, day_text, month_text, year_text,
          hebrew_day, hebrew_month, hebrew_year, start_year, num_years,
          gregorian_date, pc, year_offset, birthday_dates, log, ret, calls

vars == <<op, text, day_text, month_text, year_text,
          hebrew_day, hebrew_month, hebrew_year, start_year, num_years,
          gregorian_date, pc, year_offset, birthday_dates, log, ret, calls>>

args == <<op, text, day_text, month_text, year_text,
          hebrew_day, hebrew_month, hebrew_year, start_year, num_years,
          gregorian_date>>

NoTexts == text = <<>> /\ day_text = <<>> /\ month_text = <<>>
           /\ year_text = <<>>

NoNumbers == hebrew_day = 0 /\ hebrew_month = 0 /\ hebrew_year = 0
             /\ start_year = 0 /\ num_years = 0
             /\ gregorian_date = <<0, 0, 0>>

Init ==
    /\ pc = "call"
    /\ year_offset = 0
    /\ birthday_dates = <<>>
    /\ log = <<>>
    /\ ret = [kind |-> "pending"]
    /\ calls = 0
    /\ \/ /\ op = "hebrew_gematria_to_num"
          /\ text \in GematriaTexts
          /\ day_text = <<>> /\ month_text = <<>> /\ year_text = <<>>
          /\ NoNumbers
       \/ /\ op = "hebrew_year_to_num"
          /\ year_text \in YearTexts
          /\ text = <<>> /\ day_text = <<>> /\ month_text = <<>>
          /\ NoNumbers
       \/ /\ op = "parse_hebrew_date"
          /\ day_text \in DayTexts
          /\ month_text \in MonthTexts
          /\ year_text \in ParseYearTexts
          /\ text = <<>>
          /\ NoNumbers
       \/ /\ op = "get_hebrew_birthday_gregorian_dates"
          /\ hebrew_day \in DayValues
          /\ hebrew_month \in MonthValues
          /\ start_year \in StartYears
          /\ num_years \in NumYearsValues
          /\ hebrew_year = 0
          /\ gregorian_date = <<0, 0, 0>>
          /\ NoTexts
       \/ /\ op \in {"convert_hebrew_to_gregorian", "hebrew_to_gregorian"}
          /\ hebrew_year \in HebrewYearValues
          /\ hebrew_month \in MonthValues
          /\ hebrew_day \in DayValues
          /\ start_year = 0 /\ num_years = 0
          /\ gregorian_date = <<0, 0, 0>>
          /\ NoTexts
       \/ /\ op = "to_heb"
          /\ gregorian_date \in GregorianDateValues
          /\ hebrew_day = 0 /\ hebrew_month = 0 /\ hebrew_year = 0
          /\ start_year = 0 /\ num_years = 0
          /\ NoTexts

Return(value) == [kind |-> "return", value |-> value]

\* hebrew_gematria_to_num(text)
GematriaCall ==
    /\ op = "hebrew_gematria_to_num" /\ pc = "call"
    /\ ret' = Return(hebrew_gematria_to_num(text))
    /\ pc' = "done"
    /\ UNCHANGED <<args, year_offset, birthday_dates, log, calls>>

\* hebrew_year_to_num(year_text)
YearCall ==
    /\ op = "hebrew_year_to_num" /\ pc = "call"
    /\ ret' = Return(hebrew_year_to_num(year_text))
    /\ pc' = "done"
    /\ UNCHANGED <<args, year_offset, birthday_dates, log, calls>>

\* parse_hebrew_date(day_text, month_text, year_text)
ParseCall ==
    /\ op = "parse_hebrew_date" /\ pc = "call"
    /\ ret' = parse_hebrew_date(day_text, month_text, year_text)
    /\ pc' = "done"
    /\ UNCHANGED <<args, year_offset, birthday_dates, log, calls>>

\* get_hebrew_birthday_gregorian_dates: birthday_dates = []
FindEnter ==
    /\ op = "get_hebrew_birthday_gregorian_dates" /\ pc = "call"
    /\ birthday_dates' = <<>>
    /\ year_offset' = 0
    /\ pc' = "loop"
    /\ UNCHANGED <<args, log, ret, calls>>

\* one pass of `for year_offset in range(num_years)`; an exception that
\* left the loop body would end the call
FindYear ==
    /\ pc = "loop"
    /\ InRange(year_offset, num_years)
    /\ LET out == LoopBody(hebrew_day, hebrew_month,
                           start_year + year_offset, birthday_dates, log)
       IN  /\ birthday_dates' = out.dates
           /\ log' = out.log
           /\ IF out.kind = "raise"
              THEN /\ ret' = [kind |-> "raise", error |-> out.error]
                   /\ pc' = "done"
                   /\ UNCHANGED year_offset
              ELSE /\ year_offset' = year_offset + 1
                   /\ UNCHANGED <<pc, ret>>
    /\ UNCHANGED <<args, calls>>

\* the loop is exhausted: return sorted(birthday_dates, ...)
FindReturn ==
    /\ pc = "loop"
    /\ ~InRange(year_offset, num_years)
    /\ ret' = Return(Sorted(birthday_dates))
    /\ pc' = "done"
    /\ UNCHANGED <<args, year_offset, birthday_dates, log, calls>>

\* convert_hebrew_to_gregorian((hebrew_year, hebrew_month, hebrew_day)),
\* called once more with the same arguments while calls < MaxCalls
ConvertCall ==
    /\ op = "convert_hebrew_to_gregorian"
    /\ calls < MaxCalls
    /\ ret' = convert_hebrew_to_gregorian(
                  <<hebrew_year, hebrew_month, hebrew_day>>)
    /\ calls' = calls + 1
    /\ pc' = "done"
    /\ UNCHANGED <<args, year_offset, birthday_dates, log>>

\* HebrewBirthdayCalendar.hebrew_to_gregorian(hebrew_day, hebrew_month,
\* hebrew_year), called once more with the same arguments while
\* calls < MaxCalls; every call logs one record
DirectCall ==
    /\ op = "hebrew_to_gregorian"
    /\ calls < MaxCalls
    /\ ret' = Return(hebrew_to_gregorian(hebrew_day, hebrew_month,
                                         hebrew_year))
    /\ log' = Append(log, LogRecord(hebrew_day, hebrew_month, hebrew_year))
    /\ calls' = calls + 1
    /\ pc' = "done"
    /\ UNCHANGED <<args, year_offset, birthday_dates>>

\* GregorianDate(year, month, day).to_heb()
ToHebCall ==
    /\ op = "to_heb" /\ pc = "call"
    /\ ret' = to_heb(gregorian_date)
    /\ pc' = "done"
    /\ UNCHANGED <<args, year_offset, birthday_dates, log, calls>>

Next ==
    \/ GematriaCall
    \/ YearCall
    \/ ParseCall
    \/ FindEnter
    \/ FindYear
    \/ FindReturn
    \/ ConvertCall
    \/ DirectCall
    \/ ToHebCall

Spec == Init /\ [][Next]_vars

(***************************************************************************)
(* Properties.                                                             *)
(***************************************************************************)
GematriaDone == op = "hebrew_gematria_to_num" /\ pc = "done"
YearDone == op = "hebrew_year_to_num" /\ pc = "done"
ParseDone == op = "parse_hebrew_date" /\ pc = "done"
FindDone == op = "get_hebrew_birthday_gregorian_dates" /\ pc = "done"

\* The Gregorian years the request covers.
TargetYears == {start_year + i : i \in 0..(num_years - 1)}

ReturnedIn(Y) == {i \in 1..Len(ret.value) : ret.value[i][1] = Y}

Ascending(s) == \A i \in 1..(Len(s) - 1) : KeyLess(s[i], s[i + 1])

WellFormedRequest ==
    hebrew_month \in 1..13 /\ hebrew_day \in 1..30 /\ num_years >= 1

Malformed == hebrew_day \notin 1..30 \/ hebrew_month \notin 1..13

\* 1 January of Y is a day of the Hebrew calendar, and its Hebrew year.
HasHebrewYear(Y) == to_heb(<<Y, 1, 1>>).kind = "return"
HebrewYearStart(Y) == to_heb(<<Y, 1, 1>>).value[1]

\* The records of the log written by hebrew_to_gregorian, and those
\* written by the handler of the loop.
IsConversionRecord(r) == "hebrew_year" \in DOMAIN r
Conversions == SelectSeq(log, IsConversionRecord)
YearErrors == SelectSeq(log, LAMBDA r : ~IsConversionRecord(r))

\* (hebrew_month, hebrew_day) of Hebrew year H or H + 1, H the Hebrew year
\* of 1 January Y, exists and converts to a date of Gregorian year Y.
OccursIn(Y) ==
    /\ HasHebrewYear(Y)
    /\ LET H == HebrewYearStart(Y)
       IN  \E hy \in {H, H + 1} :
               /\ HebrewDateValid(hy, hebrew_month, hebrew_day)
               /\ to_greg(<<hy, hebrew_month, hebrew_day>>)[1] = Y

\* C1 as stated: for a well-formed request the result holds exactly one
\* date for every year of [start_year, start_year + num_years), each in its
\* year, sorted ascending (here for start years of the common era).
C1_ExactlyOneDatePerYear ==
    (FindDone /\ WellFormedRequest /\ start_year >= 1) =>
        /\ ret.kind = "return"
        /\ Len(ret.value) = num_years
        /\ \A Y \in TargetYears : Cardinality(ReturnedIn(Y)) = 1
        /\ Ascending(ret.value)

\* C1 amended: the result holds, for every year Y of the range, exactly one
\* date when the Hebrew date of candidate year H or H + 1 converts into Y
\* and no date otherwise; every date lies in a year of the range and the
\* result is sorted ascending by date.
C1_OneDatePerYearWithOccurrence ==
    FindDone =>
        /\ ret.kind = "return"
        /\ \A i \in 1..Len(ret.value) : ret.value[i][1] \in TargetYears
        /\ \A Y \in TargetYears :
               Cardinality(ReturnedIn(Y)) = IF OccursIn(Y) THEN 1 ELSE 0
        /\ Ascending(ret.value)

\* A well-formed request over three years of which one has no occurrence.
C1_Witness ==
    /\ FindDone /\ WellFormedRequest
    /\ num_years = 3
    /\ Len(ret.value) = 2
    /\ \E Y \in TargetYears : ~OccursIn(Y)
    /\ \E Y \in TargetYears : Cardinality(ReturnedIn(Y)) = 1

\* C2 as stated: the call raises whenever num_years <= 0 (here for a day
\* in 1..30, a month in 1..13 and a start year of the common era).
C2_RaisesOnNonPositiveCount ==
    (FindDone /\ num_years <= 0 /\ ~Malformed /\ start_year >= 1) =>
        ret.kind = "raise"

\* C2 amended: whenever num_years <= 0 the call raises nothing and returns
\* the empty sequence, no conversion having been attempted.
C2_EmptyOnNonPositiveCount ==
    (FindDone /\ num_years <= 0) =>
        /\ ret = Return(<<>>)
        /\ log = <<>>

\* A call with num_years = 0 for a date that exists has returned.
C2_Witness ==
    /\ FindDone
    /\ num_years = 0
    /\ hebrew_month = 7 /\ hebrew_day = 1
    /\ ret = Return(<<>>)

\* C3 as stated: the call raises whenever hebrew_day is outside 1..30 or
\* hebrew_month is outside 1..13 (here for num_years >= 1 and a start year
\* of the common era).
C3_RaisesOnMalformedDate ==
    (FindDone /\ Malformed /\ num_years >= 1 /\ start_year >= 1) =>
        ret.kind = "raise"

\* C3 amended: for hebrew_day outside 1..30 or hebrew_month outside 1..13
\* the call raises nothing: both conversions of every year fail inside
\* hebrew_to_gregorian (logged as errors), every year is skipped and the
\* empty sequence is returned.  (A year whose 1 January is before the
\* Hebrew calendar is skipped by the handler of the loop with one error
\* record, no conversion being attempted.)
C3_SkipsOnMalformedDate ==
    (FindDone /\ Malformed) =>
        /\ ret = Return(<<>>)
        /\ Len(Conversions) =
               2 * Cardinality({Y \in TargetYears : HasHebrewYear(Y)})
        /\ Len(YearErrors) =
               Cardinality({Y \in TargetYears : ~HasHebrewYear(Y)})
        /\ \A i \in 1..Len(log) : log[i].level = "error"

\* A call over two years or more with day 0 or 31, or month 0 or 14.
C3_Witness ==
    /\ FindDone /\ Malformed
    /\ num_years >= 2
    /\ ret = Return(<<>>)
    /\ Len(log) = 2 * num_years

\* C4: for a month text that is a key of HEBREW_MONTHS, parse_hebrew_date
\* returns (hebrew_year_to_num(year_text), HEBREW_MONTHS[month_text],
\* hebrew_gematria_to_num(day_text)) without raising; the example of the
\* docstring yields (5765, 12, 29).
C4_ParseReturnsTriple ==
    ParseDone =>
        /\ month_text \in DOMAIN HEBREW_MONTHS =>
               ret = Return(<<hebrew_year_to_num(year_text),
                              HEBREW_MONTHS[month_text],
                              hebrew_gematria_to_num(day_text)>>)
        /\ (day_text = KafTet /\ month_text = AdarAGeresh
            /\ year_text = Year5765) => ret = Return(<<5765, 12, 29>>)

\* C5: the Adar I text with geresh resolves to month 12 and the Adar II
\* text to month 13.
C5_AdarVariantsResolved ==
    ParseDone =>
        /\ month_text = AdarAGeresh =>
               (ret.kind = "return" /\ ret.value[2] = 12)
        /\ month_text = AdarB =>
               (ret.kind = "return" /\ ret.value[2] = 13)

\* C6: every key of HEBREW_MONTHS, given as the month text, is still a key
\* after normalization and yields the month number the table assigns to it.
C6_EveryTableKeyAccepted ==
    ParseDone =>
        \A k \in DOMAIN HEBREW_MONTHS :
            month_text = k =>
                /\ NormalizeMonthText(k) \in DOMAIN HEBREW_MONTHS
                /\ ret.kind = "return"
                /\ ret.value[2] = HEBREW_MONTHS[k]

\* The sum of the table values of the letters of s, by multiplicity.
Occurrences(c, s) == Cardinality({i \in 1..Len(s) : s[i] = c})

RECURSIVE SumOverLetters(_, _)
SumOverLetters(letters, s) ==
    IF letters = {} THEN 0
    ELSE LET c == CHOOSE x \in letters : TRUE
         IN  Occurrences(c, s) * HEBREW_NUMS[c]
             + SumOverLetters(letters \ {c}, s)

LetterSum(s) ==
    SumOverLetters({s[i] : i \in 1..Len(s)} \cap DOMAIN HEBREW_NUMS, s)

\* C7: hebrew_gematria_to_num returns the sum of the table values of the
\* characters of the text that are in the table; other characters add
\* nothing and raise nothing; the result is >= 0 and is 0 exactly when the
\* text holds no table letter.
C7_GematriaIsLetterSum ==
    GematriaDone =>
        /\ ret.kind = "return"
        /\ ret.value = LetterSum(text)
        /\ ret.value >= 0
        /\ ret.value = 0 <=>
               \A i \in 1..Len(text) : text[i] \notin DOMAIN HEBREW_NUMS

\* Kaf, quotation mark, Tet has been decoded to 29.
C7_Witness ==
    /\ GematriaDone
    /\ text = KafTet
    /\ ret = Return(29)

PermutationsOf(s) ==
    {[i \in 1..Len(s) |-> s[f[i]]] : f \in Permutations(1..Len(s))}

\* C8: every permutation of the characters of the text decodes to the same
\* number as the text.
C8_GematriaPermutationInvariant ==
    GematriaDone =>
        \A p \in PermutationsOf(text) :
            hebrew_gematria_to_num(p) = ret.value

\* A text of three characters with two different letters has been decoded.
C8_Witness ==
    /\ GematriaDone
    /\ Len(text) = 3
    /\ \E i, j \in 1..3 :
           /\ text[i] \in DOMAIN HEBREW_NUMS
           /\ text[j] \in DOMAIN HEBREW_NUMS
           /\ HEBREW_NUMS[text[i]] # HEBREW_NUMS[text[j]]
    /\ ret.value > 0

\* C9: hebrew_year_to_num returns the letter sum of the year letters plus
\* 5000 when that sum is below 1000 and the sum itself otherwise; the text
\* Tav Shin Pe gershayim He (785) yields 5785.
C9_YearAddsMillennium ==
    YearDone =>
        LET sum == LetterSum(DropMillenniumHe(RemovePrefixWord(year_text)))
        IN  /\ ret.kind = "return"
            /\ sum < 1000 => ret.value = sum + 5000
            /\ sum >= 1000 => ret.value = sum
            /\ year_text = Year5785 => ret.value = 5785

C9_Witness ==
    /\ YearDone
    /\ year_text = Year5785
    /\ ret = Return(5785)

\* The forms the word shnat and the whitespace around it take in front of
\* the year letters.
PrefixForms ==
    {<<>>, <<Space>>, Shnat, Shnat \o <<Space>>, <<Space>> \o Shnat,
     <<Space>> \o Shnat \o <<Space>>}

\* A text without the word shnat and without outer whitespace.
BareYearText(u) ==
    /\ \A i \in 1..(Len(u) - 2) : SubSeq(u, i, i + 2) # Shnat
    /\ u # <<>> => (u[1] \notin Whitespace /\ u[Len(u)] \notin Whitespace)

\* The year of a bare text: a leading He followed by more text does not
\* count; a lone He does.
BareYearValue(u) ==
    LET counted == IF Len(u) > 1 /\ u[1] = He
                   THEN SubSeq(u, 2, Len(u)) ELSE u
        sum == LetterSum(counted)
    IN  IF sum < 1000 THEN sum + 5000 ELSE sum

\* C10: the word shnat and the whitespace around it are removed, and a
\* leading He is then dropped only when more text follows it, so that it
\* does not add 5; shnat He Tav Shin Samekh " He yields 5765 and a lone He
\* yields 5005.
C10_YearStripsPrefixAndLeadingHe ==
    YearDone =>
        /\ \A k \in 0..Len(year_text) :
               LET front == SubSeq(year_text, 1, k)
                   u == SubSeq(year_text, k + 1, Len(year_text))
               IN  (front \in PrefixForms /\ BareYearText(u)) =>
                       ret = Return(BareYearValue(u))
        /\ year_text = ShnatYear5765 => ret = Return(5765)
        /\ year_text = <<He>> => ret = Return(5005)

C10_Witness ==
    /\ YearDone
    /\ year_text = ShnatYear5765
    /\ ret = Return(5765)

\* C11: when the normalized month text is no key of HEBREW_MONTHS,
\* parse_hebrew_date raises ValueError carrying that text and returns no
\* triple, whatever the day and year texts.
C11_UnknownMonthRaises ==
    ParseDone =>
        LET known == \E k \in DOMAIN HEBREW_MONTHS :
                         k = NormalizeMonthText(month_text)
        IN  /\ ~known =>
                   /\ ret.kind = "raise"
                   /\ ret.error = "ValueError"
                   /\ ret.value = NormalizeMonthText(month_text)
            /\ ret.kind = "return" => known

\* Adar followed by Gimel, which is no month name, has been rejected.
C11_Witness ==
    /\ ParseDone
    /\ month_text = <<Alef, Dalet, Resh, Space, Gimel>>
    /\ ret = [kind |-> "raise", error |-> "ValueError",
              value |-> <<Alef, Dalet, Resh, Gimel>>]

\* Neither candidate Hebrew year of Y holds the date (hebrew_month,
\* hebrew_day).
InvalidInBothCandidates(Y) ==
    /\ HasHebrewYear(Y)
    /\ LET H == HebrewYearStart(Y)
       IN  /\ ~HebrewDateValid(H, hebrew_month, hebrew_day)
           /\ ~HebrewDateValid(H + 1, hebrew_month, hebrew_day)

\* C12: when the date is invalid in both candidate years of a year Y the
\* call raises nothing and returns no date for Y, the other years of the
\* range are still converted and keep their dates, and with num_years = 1
\* the result is empty.
C12_InvalidYearSkipped ==
    FindDone =>
        \A Y \in TargetYears :
            InvalidInBothCandidates(Y) =>
                /\ ret.kind = "return"
                /\ ReturnedIn(Y) = {}
                /\ num_years = 1 => ret = Return(<<>>)
                /\ \A Z \in TargetYears :
                       /\ \E i \in 1..Len(Conversions) :
                              Conversions[i].hebrew_year = HebrewYearStart(Z)
                       /\ OccursIn(Z) => ReturnedIn(Z) # {}

\* A year whose candidates are both invalid is followed, in the same call,
\* by a year that received its date.
C12_Witness ==
    /\ FindDone
    /\ \E Y, Z \in TargetYears :
           /\ InvalidInBothCandidates(Y)
           /\ Z > Y
           /\ ReturnedIn(Z) # {}

ConvertDone == op = "convert_hebrew_to_gregorian" /\ calls >= 1
DirectDone == op = "hebrew_to_gregorian" /\ calls >= 1

\* The Hebrew date of a single-date conversion exists.
RequestedDateValid == HebrewDateValid(hebrew_year, hebrew_month, hebrew_day)

\* C14 as stated: every single-date conversion of a day and month that do
\* not exist in the given Hebrew year ends in an error raised to the
\* caller.
C14_InvalidDateAlwaysRaises ==
    (/\ ConvertDone \/ DirectDone
     /\ hebrew_year >= 1 /\ hebrew_month \in 1..13 /\ hebrew_day \in 1..30
     /\ ~RequestedDateValid) =>
        ret.kind = "raise"

\* What holds after any number of single-date conversions of one date.
SingleConversionOutcome ==
    /\ ConvertDone =>
           /\ ret = (IF RequestedDateValid
                     THEN Return(to_greg(<<hebrew_year, hebrew_month,
                                           hebrew_day>>))
                     ELSE [kind |-> "raise", error |-> "ValueError",
                           value |-> <<hebrew_year, hebrew_month,
                                       hebrew_day>>])
           /\ log = <<>>
           /\ birthday_dates = <<>>
    /\ DirectDone =>
           /\ ret = (IF RequestedDateValid
                     THEN Return([kind |-> "date",
                                  date |-> to_greg(<<hebrew_year,
                                                     hebrew_month,
                                                     hebrew_day>>)])
                     ELSE Return(None))
           /\ Len(log) = calls
           /\ \A i \in 1..Len(log) :
                  log[i] = [level |-> IF RequestedDateValid
                                      THEN "info" ELSE "error",
                            hebrew_day |-> hebrew_day,
                            hebrew_month |-> hebrew_month,
                            hebrew_year |-> hebrew_year]
           /\ birthday_dates = <<>>

\* A repeated conversion gives the result of the first one.
RepeatedConversionSame ==
    (ConvertDone \/ DirectDone) => ret' = ret

\* C14 (amended): convert_hebrew_to_gregorian raises ValueError to the
\* caller for a date that does not exist and touches no state;
\* HebrewBirthdayCalendar.hebrew_to_gregorian returns None for such a date
\* and writes one error record per call; for a date that exists both return
\* the same Gregorian date on every call, hebrew_to_gregorian writing one
\* info record per call.
C14_SingleConversion ==
    []SingleConversionOutcome /\ [][RepeatedConversionSame]_vars

\* hebrew_to_gregorian was called twice for Adar II (month 13) of 5785,
\* which has no Adar II, and returned None with two error records.
C14_Witness ==
    /\ DirectDone /\ calls = 2
    /\ hebrew_year = 5785 /\ hebrew_month = 13 /\ hebrew_day = 1
    /\ ret = Return(None)
    /\ Len(log) = 2 /\ log[2].level = "error"

ToHebDone == op = "to_heb" /\ pc = "done"

\* The argument of the conversion to Hebrew is a date of the Gregorian
\* calendar.
RequestedGregorianValid ==
    GregorianDateValid(gregorian_date[1], gregorian_date[2],
                       gregorian_date[3])

\* The Gregorian date of the first day of the Hebrew calendar,
\* 1 Tishrei of year 1.
HebrewEpochDate == to_greg(<<1, 7, 1>>)

\* Converting a Hebrew date that exists to Gregorian and back gives the
\* Hebrew date again.
HebrewRoundTrip ==
    /\ (ConvertDone /\ ret.kind = "return") =>
           to_heb(ret.value)
               = Return(<<hebrew_year, hebrew_month, hebrew_day>>)
    /\ (DirectDone /\ ret.value # None) =>
           to_heb(ret.value.date)
               = Return(<<hebrew_year, hebrew_month, hebrew_day>>)

C16_TripleIsHebrewDate ==
    (ParseDone /\ ret.kind = "return") =>
        /\ ret.value[1] >= 1
        /\ ret.value[2] \in 1..13
        /\ ret.value[3] \in 1..30

\* C16 (amended): every returned triple has year >= 1000 and month in
\* 1..13; its day is the letter sum of the day text, which is 0 exactly
\* when the day text holds no table letter and is not bounded by 30.
C16_TripleRanges ==
    (ParseDone /\ ret.kind = "return") =>
        /\ ret.value[1] >= 1000
        /\ ret.value[2] \in 1..13
        /\ ret.value[3] = LetterSum(day_text)
        /\ ret.value[3] >= 0
        /\ ret.value[3] = 0 <=>
               \A i \in 1..Len(day_text) :
                   day_text[i] \notin DOMAIN HEBREW_NUMS

\* An empty day text was returned as day 0 of Tishrei.
C16_Witness ==
    /\ ParseDone
    /\ day_text = <<>> /\ month_text = Tishrei
    /\ ret.kind = "return"
    /\ ret.value[2] = 7 /\ ret.value[3] = 0

\* The date (hebrew_month, hebrew_day) of Hebrew year hy exists and lies
\* in Gregorian year Y.
Lands(hy, Y) ==
    /\ HasHebrewYear(Y)
    /\ HebrewDateValid(hy, hebrew_month, hebrew_day)
    /\ to_greg(<<hy, hebrew_month, hebrew_day>>)[1] = Y

\* The Hebrew years evaluated for Gregorian year Y (none when 1 January
\* of Y has no Hebrew year).
CandidatesTried(Y) ==
    IF ~HasHebrewYear(Y) THEN <<>>
    ELSE LET H == HebrewYearStart(Y)
         IN  IF Lands(H, Y) THEN <<H>> ELSE <<H, H + 1>>

RECURSIVE YearsTried(_)
YearsTried(n) ==
    IF n <= 0 THEN <<>>
    ELSE YearsTried(n - 1) \o CandidatesTried(start_year + n - 1)

\* C17: for each year Y of the range the conversions made are, in order,
\* that of H (the Hebrew year of 1 January Y) and, only when H does not
\* land in Y, that of H + 1; when both H and H + 1 land in Y the one date
\* returned for Y is that of H.
C17_CandidateOrder ==
    FindDone =>
        /\ [i \in 1..Len(Conversions) |-> Conversions[i].hebrew_year]
               = YearsTried(num_years)
        /\ \A Y \in {Z \in TargetYears : HasHebrewYear(Z)} :
               LET H == HebrewYearStart(Y)
               IN  (Lands(H, Y) /\ Lands(H + 1, Y)) =>
                       /\ Cardinality(ReturnedIn(Y)) = 1
                       /\ \A i \in ReturnedIn(Y) :
                              ret.value[i] =
                                  to_greg(<<H, hebrew_month, hebrew_day>>)

\* 10 Tevet falls in 2020 on 7 January (5780) and on 25 December (5781);
\* the request for 2020 returned 7 January after one conversion.
C17_Witness ==
    /\ FindDone
    /\ hebrew_month = 10 /\ hebrew_day = 10
    /\ start_year = 2020 /\ num_years = 1
    /\ Lands(5780, 2020) /\ Lands(5781, 2020)
    /\ ret = Return(<<<<2020, 1, 7>>>>)
    /\ Len(log) = 1

\* What holds of the list at every point of a request and of its result.
OccurrenceListShape ==
    op = "get_hebrew_birthday_gregorian_dates" =>
        /\ ret.kind \in {"pending", "return"}
        /\ Len(birthday_dates) <= (IF num_years > 0 THEN num_years ELSE 0)
        /\ \A i \in 1..Len(birthday_dates) :
               /\ birthday_dates[i][1] >= start_year
               /\ birthday_dates[i][1] < start_year + num_years
               /\ \A j \in 1..Len(birthday_dates) :
                      birthday_dates[i][1] = birthday_dates[j][1] => i = j
        /\ pc = "done" =>
               /\ ret.kind = "return"
               /\ Len(ret.value) = Len(birthday_dates)
               /\ \A i \in 1..Len(birthday_dates) :
                      \E j \in 1..Len(ret.value) :
                          ret.value[j] = birthday_dates[i]
               /\ \A Y \in TargetYears :
                      ~HasHebrewYear(Y) =>
                          /\ ReturnedIn(Y) = {}
                          /\ \E i \in 1..Len(log) :
                                 log[i] = [level |-> "error",
                                           gregorian_year |-> Y]

\* No step removes or changes a date already in the list.
FoundDatesKept ==
    op = "get_hebrew_birthday_gregorian_dates" =>
        /\ Len(birthday_dates') >= Len(birthday_dates)
        /\ \A i \in 1..Len(birthday_dates) :
               birthday_dates'[i] = birthday_dates[i]

\* C18: for all integer inputs get_hebrew_birthday_gregorian_dates raises
\* nothing (an exception of the conversion of 1 January is caught, logged
\* and the year skipped) and returns at most one date per Gregorian year,
\* each in [start_year, start_year + num_years), so at most
\* max(0, num_years) dates; no step of the loop, failed conversions
\* included, removes or changes a date found for another year.
C18_ListNeverShrinks ==
    []OccurrenceListShape /\ [][FoundDatesKept]_vars

\* A request for years before the Hebrew calendar has returned the empty
\* list, the handler having logged one error for each year.
C18_HandlerWitness ==
    /\ FindDone
    /\ num_years = 2
    /\ ~HasHebrewYear(start_year) /\ ~HasHebrewYear(start_year + 1)
    /\ ret = Return(<<>>)
    /\ log = <<[level |-> "error", gregorian_year |-> start_year],
               [level |-> "error", gregorian_year |-> start_year + 1]>>

\* Adar II from 2019 over three years: 2019 has it, 2020 has none in
\* either candidate year, and the date of 2019 is in the result.
C18_Witness ==
    /\ FindDone
    /\ hebrew_month = 13 /\ hebrew_day = 1
    /\ start_year = 2019 /\ num_years = 3
    /\ InvalidInBothCandidates(2020)
    /\ Len(ret.value) = 1
    /\ ret.value[1][1] = 2019

\* C19: hebrew_year_to_num never returns less than 1000: a text with no
\* table letter, or holding only the word shnat, gives 5000, and a letter
\* sum below 1000 gives a value in 5000..5999; parse_hebrew_date raises
\* only for the month, never for the year text.
C19_YearNeverBelowThousand ==
    /\ YearDone =>
           /\ ret.value >= 1000
           /\ (\/ \A i \in 1..Len(year_text) :
                      year_text[i] \notin DOMAIN HEBREW_NUMS
               \/ Strip(year_text) = Shnat) => ret.value = 5000
           /\ LetterSum(year_text) < 1000 => ret.value \in 5000..5999
    /\ ParseDone =>
           /\ ret.kind = "return" => ret.value[1] >= 1000
           /\ (year_text = <<>> /\ ret.kind = "return") =>
                  ret.value[1] = 5000
           /\ ret.kind = "raise" =>
                  NormalizeMonthText(month_text) \notin DOMAIN HEBREW_MONTHS

\* An empty year text was parsed, with a known month, as the year 5000.
C19_Witness ==
    /\ ParseDone
    /\ year_text = <<>>
    /\ ret.kind = "return"
    /\ ret.value[1] = 5000

====
